---- MODULE Spec2Model ----
(***************************************************************************)
(* Code-Cleaner (src/code-cleaner.py): the comment-stripping scanner       *)
(* remove_comments_safely and the per-file pipeline process_file.          *)
(*                                                                         *)
(* A text is a sequence of characters; a character is a one-character      *)
(* string, except the backquote, which a TLA+ string cannot hold and which *)
(* is the atom Backtick.  Indices are the code's 0-based indices.          *)
(***************************************************************************)
EXTENDS Integers, Sequences, FiniteSets, TLC

VARIABLES
    content,            \* remove_comments_safely: the argument content
    suffix,             \* remove_comments_safely: the argument suffix
    i,                  \* the scan index
    result,             \* the output list
    in_string,
    string_char,
    in_block_comment,
    in_line_comment,
    pc,                 \* "scan": at the loop test; "done": returned; "idle"
    files,              \* main: the list iter_files returned
    flags,              \* main: args.backup, args.validate, args.dry_run
    workers,            \* main: args.workers
    mpc,                \* main's position
    printed,            \* main: the outcome strings printed so far, in order
    summary,            \* main: the counts of the summary lines printed so far
    raised,             \* per path: the statement of the call that raised, or "none"
    disk,               \* per path: the bytes of the file at that path
    bak,                \* per path: the file at <path>.bak, or NoFile
    tmpfiles,           \* number of temporary files validate_syntax has left
    fpc,                \* per path: process_file's position
    text,               \* per path: process_file's local content
    cleaned,            \* per path: process_file's local cleaned
    validated,          \* per path: what validate_syntax returned, if called
    writes,             \* per path: write_text calls made on the original
    outcome             \* per path: the tag of the string returned, or "none"

scanvars == <<content, suffix, i, result, in_string, string_char,
              in_block_comment, in_line_comment, pc>>
mainvars == <<workers, mpc, printed, summary>>
filevars == <<files, flags, disk, bak, tmpfiles, fpc, text, cleaned, validated,
              writes, outcome, raised, mainvars>>
vars == <<scanvars, filevars>>

-----------------------------------------------------------------------------
(* Characters *)

NL        == "\n"
DQuote    == "\""
SQuote    == "'"
Backtick  == "BACKTICK"
Backslash == "\\"
NoChar    == ""

QuoteChars == {SQuote, DQuote, Backtick}

CLikeSuffixes  == {".js", ".ts", ".jsx", ".tsx", ".java", ".c", ".cpp", ".h",
                   ".hpp", ".go", ".php"}
MarkupSuffixes == {".html", ".htm"}

-----------------------------------------------------------------------------
(* Python's indexing, slicing and str.find on a 0-based text *)

\* content[k]: a negative k counts from the end, as in Python.
PyIndex(c, k) == IF k >= 0 THEN c[k + 1] ELSE c[Len(c) + k + 1]

\* content[i + 1] if i + 1 < length else ""
NextChar(c, k) == IF k + 1 < Len(c) THEN c[k + 2] ELSE NoChar

\* content[a:b] for 0 <= a <= b
PySlice(c, a, b) ==
    LET hi == IF b < Len(c) THEN b ELSE Len(c)
    IN  IF a >= hi THEN << >> ELSE SubSeq(c, a + 1, hi)

\* content.find(pat, start): the lowest index >= start where pat begins, or -1
PyFind(c, pat, start) ==
    LET hits == {k \in start .. (Len(c) - Len(pat)) : PySlice(c, k, k + Len(pat)) = pat}
    IN  IF hits = {} THEN -1 ELSE CHOOSE k \in hits : \A j \in hits : k <= j

Range(f) == {f[k] : k \in DOMAIN f}

MarkupOpen  == <<"<", "!", "-", "-">>
MarkupClose == <<"-", "-", ">">>

-----------------------------------------------------------------------------
(* The scanner's local state as a record, and the loop body's branches *)

ScanStart == [i |-> 0, result |-> << >>, in_string |-> FALSE, string_char |-> NoChar,
              in_block_comment |-> FALSE, in_line_comment |-> FALSE]

\* Faulty variant: the newline that ends a line comment is dropped with it.
LineCommentBranchDropsNewline(c, s) ==
    IF PyIndex(c, s.i) = NL
    THEN [s EXCEPT !.in_line_comment = FALSE, !.i = @ + 1]
    ELSE [s EXCEPT !.i = @ + 1]

\* lines 47-52
LineCommentBranch(c, s) ==
    IF PyIndex(c, s.i) = NL
    THEN [s EXCEPT !.in_line_comment = FALSE, !.result = Append(@, NL), !.i = @ + 1]
    ELSE [s EXCEPT !.i = @ + 1]

\* Faulty variant: "*" closes the comment without a look at the next character.
BlockCommentBranchCloseUnchecked(c, s) ==
    IF PyIndex(c, s.i) = "*"
    THEN [s EXCEPT !.in_block_comment = FALSE, !.i = @ + 2]
    ELSE [s EXCEPT !.i = @ + 1]

\* Faulty variant: a quote read inside a block comment opens a string.
BlockCommentBranchOpensString(c, s) ==
    IF PyIndex(c, s.i) = "*" /\ NextChar(c, s.i) = "/"
    THEN [s EXCEPT !.in_block_comment = FALSE, !.i = @ + 2]
    ELSE IF PyIndex(c, s.i) \in QuoteChars
    THEN [s EXCEPT !.in_block_comment = FALSE, !.in_string = TRUE,
                   !.string_char = PyIndex(c, s.i), !.i = @ + 1]
    ELSE [s EXCEPT !.i = @ + 1]

\* Faulty variant: the closer advances by one, leaving its "/" to be scanned as code.
BlockCommentBranchCloseByOne(c, s) ==
    IF PyIndex(c, s.i) = "*" /\ NextChar(c, s.i) = "/"
    THEN [s EXCEPT !.in_block_comment = FALSE, !.i = @ + 1]
    ELSE [s EXCEPT !.i = @ + 1]

\* Faulty variant: newlines inside a block comment are kept.
BlockCommentBranchKeepsNewlines(c, s) ==
    IF PyIndex(c, s.i) = "*" /\ NextChar(c, s.i) = "/"
    THEN [s EXCEPT !.in_block_comment = FALSE, !.i = @ + 2]
    ELSE IF PyIndex(c, s.i) = NL
    THEN [s EXCEPT !.result = Append(@, NL), !.i = @ + 1]
    ELSE [s EXCEPT !.i = @ + 1]

\* lines 54-60
BlockCommentBranch(c, s) ==
    IF PyIndex(c, s.i) = "*" /\ NextChar(c, s.i) = "/"
    THEN [s EXCEPT !.in_block_comment = FALSE, !.i = @ + 2]
    ELSE [s EXCEPT !.i = @ + 1]

\* Faulty variant: a backslash that is itself escaped does not escape the delimiter.
StringBranchEscapedBackslash(c, s) ==
    LET char == PyIndex(c, s.i)
        escaped == /\ PyIndex(c, s.i - 1) = Backslash
                   /\ ~(s.i >= 2 /\ PyIndex(c, s.i - 2) = Backslash)
        closes == char = s.string_char /\ ~escaped
    IN  [s EXCEPT !.result = Append(@, char),
                  !.in_string = IF closes THEN FALSE ELSE @,
                  !.i = @ + 1]

\* Faulty variant: a backslash in a string swallows the character after it.
StringBranchSkipsEscaped(c, s) ==
    LET char == PyIndex(c, s.i)
        closes == char = s.string_char /\ PyIndex(c, s.i - 1) # Backslash
    IN  [s EXCEPT !.result = Append(@, char),
                  !.in_string = IF closes THEN FALSE ELSE @,
                  !.i = IF char = Backslash THEN @ + 2 ELSE @ + 1]

\* lines 62-67
StringBranch(c, s) ==
    LET char == PyIndex(c, s.i)
        closes == char = s.string_char /\ PyIndex(c, s.i - 1) # Backslash
    IN  [s EXCEPT !.result = Append(@, char),
                  !.in_string = IF closes THEN FALSE ELSE @,
                  !.i = @ + 1]

\* Faulty variant: the quote that opens a string is not kept.
OpenStringBranchDropsQuote(c, s) ==
    [s EXCEPT !.in_string = TRUE, !.string_char = PyIndex(c, s.i), !.i = @ + 1]

\* lines 69-74
OpenStringBranch(c, s) ==
    [s EXCEPT !.in_string = TRUE, !.string_char = PyIndex(c, s.i),
              !.result = Append(@, PyIndex(c, s.i)), !.i = @ + 1]

\* lines 76-79
PyCommentBranch(c, s) == [s EXCEPT !.in_line_comment = TRUE, !.i = @ + 1]

\* lines 84-87
CLineCommentBranch(c, s) == [s EXCEPT !.in_line_comment = TRUE, !.i = @ + 2]

\* Faulty variant: the opener advances by one, so its "*" can serve the closer.
CBlockCommentBranchOpenByOne(c, s) == [s EXCEPT !.in_block_comment = TRUE, !.i = @ + 1]

\* lines 88-91
CBlockCommentBranch(c, s) == [s EXCEPT !.in_block_comment = TRUE, !.i = @ + 2]

\* lines 94-97
CssBlockCommentBranch(c, s) == [s EXCEPT !.in_block_comment = TRUE, !.i = @ + 2]

\* Faulty variant: the scan resumes at the closer instead of after it.
MarkupCommentBranchToCloser(c, s) == [s EXCEPT !.i = PyFind(c, MarkupClose, s.i + 4)]

\* lines 101-104, taken when end != -1
MarkupCommentBranch(c, s) == [s EXCEPT !.i = PyFind(c, MarkupClose, s.i + 4) + 3]

\* Faulty variant: newlines in code are not kept.
EmitBranchDropsNewline(c, s) ==
    IF PyIndex(c, s.i) = NL
    THEN [s EXCEPT !.i = @ + 1]
    ELSE [s EXCEPT !.result = Append(@, PyIndex(c, s.i)), !.i = @ + 1]

\* lines 106-107
EmitBranch(c, s) == [s EXCEPT !.result = Append(@, PyIndex(c, s.i)), !.i = @ + 1]

\* Faulty variant: "#" opens a comment under every suffix.
IsPyCommentAnySuffix(c, sfx, s) == PyIndex(c, s.i) = "#"

\* Faulty variant: .css is scanned with the c-like rules' "//" as well.
IsCssCommentAlsoSlashes(c, sfx, s) ==
    sfx = ".css" /\ PyIndex(c, s.i) = "/" /\ NextChar(c, s.i) \in {"/", "*"}

\* Faulty variant: the c-like block comment is recognised under every suffix.
IsCBlockCommentAnySuffix(c, sfx, s) == PyIndex(c, s.i) = "/" /\ NextChar(c, s.i) = "*"

\* The conditions of the loop body, in the code's order: line 76
IsPyComment(c, sfx, s) == sfx = ".py" /\ PyIndex(c, s.i) = "#"
\* lines 81-84
IsCLineComment(c, sfx, s) == sfx \in CLikeSuffixes /\ PyIndex(c, s.i) = "/" /\ NextChar(c, s.i) = "/"
\* lines 81-83, 88
IsCBlockComment(c, sfx, s) == sfx \in CLikeSuffixes /\ PyIndex(c, s.i) = "/" /\ NextChar(c, s.i) = "*"
\* lines 93-94
IsCssComment(c, sfx, s) == sfx = ".css" /\ PyIndex(c, s.i) = "/" /\ NextChar(c, s.i) = "*"
\* lines 99-102
IsMarkupComment(c, sfx, s) ==
    /\ sfx \in MarkupSuffixes
    /\ PySlice(c, s.i, s.i + 4) = MarkupOpen
    /\ PyFind(c, MarkupClose, s.i + 4) # -1

\* Faulty variant: the quote test comes before the tests of the comment modes.
DispatchQuotesFirst(c, sfx, s) ==
    IF s.in_string THEN "string"
    ELSE IF PyIndex(c, s.i) \in QuoteChars THEN "open_string"
    ELSE IF s.in_line_comment THEN "line_comment"
    ELSE IF s.in_block_comment THEN "block_comment"
    ELSE IF IsPyComment(c, sfx, s) THEN "py_comment"
    ELSE IF IsCLineComment(c, sfx, s) THEN "c_line_comment"
    ELSE IF IsCBlockComment(c, sfx, s) THEN "c_block_comment"
    ELSE IF IsCssComment(c, sfx, s) THEN "css_comment"
    ELSE IF IsMarkupComment(c, sfx, s) THEN "markup_comment"
    ELSE "emit"

\* Which branch of the loop body runs in state s (requires s.i < Len(c)).
Dispatch(c, sfx, s) ==
    IF s.in_line_comment THEN "line_comment"
    ELSE IF s.in_block_comment THEN "block_comment"
    ELSE IF s.in_string THEN "string"
    ELSE IF PyIndex(c, s.i) \in QuoteChars THEN "open_string"
    ELSE IF IsPyComment(c, sfx, s) THEN "py_comment"
    ELSE IF IsCLineComment(c, sfx, s) THEN "c_line_comment"
    ELSE IF IsCBlockComment(c, sfx, s) THEN "c_block_comment"
    ELSE IF IsCssComment(c, sfx, s) THEN "css_comment"
    ELSE IF IsMarkupComment(c, sfx, s) THEN "markup_comment"
    ELSE "emit"

\* One iteration of the while loop (lines 44-107).
ScanStep(c, sfx, s) ==
    LET b == Dispatch(c, sfx, s)
    IN  CASE b = "line_comment"    -> LineCommentBranch(c, s)
          [] b = "block_comment"   -> BlockCommentBranch(c, s)
          [] b = "string"          -> StringBranch(c, s)
          [] b = "open_string"     -> OpenStringBranch(c, s)
          [] b = "py_comment"      -> PyCommentBranch(c, s)
          [] b = "c_line_comment"  -> CLineCommentBranch(c, s)
          [] b = "c_block_comment" -> CBlockCommentBranch(c, s)
          [] b = "css_comment"     -> CssBlockCommentBranch(c, s)
          [] b = "markup_comment"  -> MarkupCommentBranch(c, s)
          [] OTHER                 -> EmitBranch(c, s)

RECURSIVE ScanLoop(_, _, _)
ScanLoop(c, sfx, s) == IF s.i < Len(c) THEN ScanLoop(c, sfx, ScanStep(c, sfx, s)) ELSE s

\* remove_comments_safely(content, suffix) as a function (lines 33-109).
remove_comments_safely(c, sfx) == ScanLoop(c, sfx, ScanStart).result

-----------------------------------------------------------------------------
(* The inputs the scan is run on *)

MaxLen          == 3    \* texts over every character, every suffix
MaxPyLen        == 5    \* .py texts over the characters python scanning reads
MaxSlashLen     == 6    \* c-like and .css texts over / * newline and a quote
MaxMarkupTokens == 5    \* markup texts built from comment delimiters

\* One suffix per language tag, and one that has no tag.
Suffixes == {".py", ".js", ".css", ".html", ".txt"}

AllTokens    == {<<"a">>, <<NL>>, <<DQuote>>, <<SQuote>>, <<Backtick>>, <<Backslash>>,
                 <<"#">>, <<"/">>, <<"*">>, MarkupOpen, MarkupClose}
PyTokens     == {<<"a">>, <<NL>>, <<DQuote>>, <<Backslash>>, <<"#">>}
SlashTokens  == {<<"/">>, <<"*">>, <<NL>>, <<DQuote>>}
MarkupTokens == {MarkupOpen, MarkupClose, <<"<", "!">>, <<"-", "-">>, <<DQuote>>}

\* The concatenations of at most n tokens.
RECURSIVE Texts(_, _)
Texts(tokens, n) ==
    IF n = 0 THEN {<< >>}
    ELSE LET shorter == Texts(tokens, n - 1)
         IN  shorter \cup {t \o tok : t \in shorter, tok \in tokens}

Inputs(sfx) ==
    Texts(AllTokens, MaxLen)
    \cup (IF sfx = ".py" THEN Texts(PyTokens, MaxPyLen) ELSE {})
    \cup (IF sfx \in {".js", ".css"} THEN Texts(SlashTokens, MaxSlashLen) ELSE {})
    \cup (IF sfx = ".html" THEN Texts(MarkupTokens, MaxMarkupTokens) ELSE {})

-----------------------------------------------------------------------------
(* remove_comments_safely as a state machine: one action per branch of the  *)
(* loop body, and the return.                                               *)

Cur == [i |-> i, result |-> result, in_string |-> in_string, string_char |-> string_char,
        in_block_comment |-> in_block_comment, in_line_comment |-> in_line_comment]

Become(s) ==
    /\ i' = s.i
    /\ result' = s.result
    /\ in_string' = s.in_string
    /\ string_char' = s.string_char
    /\ in_block_comment' = s.in_block_comment
    /\ in_line_comment' = s.in_line_comment
    /\ UNCHANGED <<content, suffix, pc, filevars>>

InLoop(branch) == pc = "scan" /\ i < Len(content) /\ Dispatch(content, suffix, Cur) = branch

LineComment   == InLoop("line_comment")    /\ Become(LineCommentBranch(content, Cur))
BlockComment  == InLoop("block_comment")   /\ Become(BlockCommentBranch(content, Cur))
InString      == InLoop("string")          /\ Become(StringBranch(content, Cur))
OpenString    == InLoop("open_string")     /\ Become(OpenStringBranch(content, Cur))
PyComment     == InLoop("py_comment")      /\ Become(PyCommentBranch(content, Cur))
CLineComment  == InLoop("c_line_comment")  /\ Become(CLineCommentBranch(content, Cur))
CBlockComment == InLoop("c_block_comment") /\ Become(CBlockCommentBranch(content, Cur))
CssComment    == InLoop("css_comment")     /\ Become(CssBlockCommentBranch(content, Cur))
MarkupComment == InLoop("markup_comment")  /\ Become(MarkupCommentBranch(content, Cur))
Emit          == InLoop("emit")            /\ Become(EmitBranch(content, Cur))

\* line 43 false, line 109
Return ==
    /\ pc = "scan" /\ ~(i < Len(content))
    /\ pc' = "done"
    /\ UNCHANGED <<content, suffix, i, result, in_string, string_char,
                   in_block_comment, in_line_comment, filevars>>

\* What is at a path: no file, or a file holding bytes.
NoFile == [exists |-> FALSE, bytes |-> << >>]
\* Faulty variant: the file is made but nothing is copied into it.
FileOfEmpty(bytes) == [exists |-> TRUE, bytes |-> << >>]

FileOf(bytes) == [exists |-> TRUE, bytes |-> bytes]

Paths == {"a.py", "b.js", "c.css"}

FileIdle ==
    /\ files = << >>
    /\ flags = [backup |-> FALSE, validate |-> FALSE, dry_run |-> FALSE]
    /\ disk = [p \in Paths |-> << >>]
    /\ bak = [p \in Paths |-> NoFile]
    /\ tmpfiles = 0
    /\ fpc = [p \in Paths |-> "idle"]
    /\ text = [p \in Paths |-> << >>]
    /\ cleaned = [p \in Paths |-> << >>]
    /\ validated = [p \in Paths |-> "not called"]
    /\ writes = [p \in Paths |-> 0]
    /\ outcome = [p \in Paths |-> "none"]
    /\ raised = [p \in Paths |-> "none"]
    /\ workers = 0 /\ mpc = "idle" /\ printed = << >> /\ summary = << >>

Init ==
    /\ suffix \in Suffixes
    /\ content \in Inputs(suffix)
    /\ i = ScanStart.i
    /\ result = ScanStart.result
    /\ in_string = ScanStart.in_string
    /\ string_char = ScanStart.string_char
    /\ in_block_comment = ScanStart.in_block_comment
    /\ in_line_comment = ScanStart.in_line_comment
    /\ pc = "scan"
    /\ FileIdle

Next ==
    \/ LineComment
    \/ BlockComment
    \/ InString
    \/ OpenString
    \/ PyComment
    \/ CLineComment
    \/ CBlockComment
    \/ CssComment
    \/ MarkupComment
    \/ Emit
    \/ Return

Spec == Init /\ [][Next]_vars

\* The state machine computes the function.
ScanAgrees == pc = "done" => result = remove_comments_safely(content, suffix)

-----------------------------------------------------------------------------
(* process_file (lines 152-170) on every file of the list, each file's call   *)
(* running on its own: an action is one statement of one file's call.         *)

BadByte == "\\xff"      \* a byte that is not valid UTF-8
CR      == "\r"

\* Path.suffix.lower() of the paths of the model (lines 112, 155)
SuffixOf(p) == CASE p = "a.py" -> ".py" [] p = "b.js" -> ".js" [] p = "c.css" -> ".css"

\* read_text(encoding="utf-8", errors="ignore") (line 154): undecodable bytes
\* are dropped, then "\r\n" and "\r" are read as "\n".
RECURSIVE UniversalNewlines(_)
UniversalNewlines(t) ==
    IF t = << >> THEN << >>
    ELSE IF Head(t) = CR
         THEN IF Len(t) >= 2 /\ t[2] = NL
              THEN <<NL>> \o UniversalNewlines(Tail(Tail(t)))
              ELSE <<NL>> \o UniversalNewlines(Tail(t))
         ELSE <<Head(t)>> \o UniversalNewlines(Tail(t))

Decode(bytes) == UniversalNewlines(SelectSeq(bytes, LAMBDA b : b # BadByte))

\* write_text(cleaned, encoding="utf-8") (line 166): every character of a text
\* that was read encodes; "\n" is written as os.linesep, which is "\n" here.
Encode(t) == t

\* validate_syntax (lines 111-150): what it may return (ok) and whether it has
\* left a temporary file behind (tmp).  The parsers and external tools decide
\* ok; any exception gives FALSE (lines 149-150).
\* exc tells whether FALSE comes from an exception that is not the parser's
\* verdict: the temporary file could not be made or written, or the external
\* tool could not be run.
ValidateSyntaxResults(sfx) ==
    IF sfx = ".py"
    THEN {[ok |-> TRUE, tmp |-> 0, exc |-> FALSE], [ok |-> FALSE, tmp |-> 0, exc |-> FALSE]}
    ELSE {[ok |-> FALSE, tmp |-> 0, exc |-> TRUE], [ok |-> FALSE, tmp |-> 1, exc |-> TRUE]}
         \cup (IF sfx \in {".js", ".ts", ".php", ".c", ".cpp"}
               THEN {[ok |-> TRUE, tmp |-> 1, exc |-> FALSE],
                     [ok |-> FALSE, tmp |-> 1, exc |-> FALSE]}
               ELSE {[ok |-> TRUE, tmp |-> 1, exc |-> FALSE]})

\* Faulty variant: the validation's answer is not looked at.
SkipsInvalidNever(fl, ok) == FALSE

\* line 157: validate and not validate_syntax(...)
SkipsInvalid(fl, ok) == fl.validate /\ ~ok

\* Faulty variant: the copy is never made.
WantsBackupNever(fl) == FALSE

\* line 163
WantsBackup(fl) == fl.backup

\* The proper prefixes of a byte string: what a failed write or copy may leave.
Truncations(bytes) == {SubSeq(bytes, 1, n) : n \in 0 .. Len(bytes) - 1}

At(p, line) == p \in Range(files) /\ fpc[p] = line
Goto(p, line) == fpc' = [fpc EXCEPT ![p] = line]

\* return of an outcome string (lines 158, 161, 167, 170)
ReturnOutcome(p, tag) ==
    /\ Goto(p, "returned")
    /\ outcome' = [outcome EXCEPT ![p] = tag]

\* an exception raised by the statement at `line` reaches lines 169-170
Except(p, line) ==
    /\ raised' = [raised EXCEPT ![p] = line]
    /\ ReturnOutcome(p, "ERROR")

\* line 154
ReadText(p) ==
    /\ At(p, "line154")
    /\ \/ /\ text' = [text EXCEPT ![p] = Decode(disk[p])]
          /\ Goto(p, "line155")
          /\ UNCHANGED <<outcome, raised>>
       \/ /\ Except(p, "line154")
          /\ UNCHANGED text
    /\ UNCHANGED <<scanvars, mainvars, files, flags, disk, bak, tmpfiles, cleaned, validated, writes>>

\* line 155
CleanText(p) ==
    /\ At(p, "line155")
    /\ cleaned' = [cleaned EXCEPT ![p] = remove_comments_safely(text[p], SuffixOf(p))]
    /\ Goto(p, "line157")
    /\ UNCHANGED <<scanvars, mainvars, files, flags, disk, bak, tmpfiles, text, validated,
                   writes, outcome, raised>>

\* lines 157-158
Validate(p) ==
    /\ At(p, "line157")
    /\ IF flags.validate
       THEN \E r \in ValidateSyntaxResults(SuffixOf(p)) :
                /\ validated' = [validated EXCEPT ![p] = IF r.ok THEN "valid" ELSE "invalid"]
                /\ tmpfiles' = tmpfiles + r.tmp
                /\ raised' = [raised EXCEPT ![p] = IF r.exc THEN "validate_syntax" ELSE @]
                /\ IF SkipsInvalid(flags, r.ok)
                   THEN ReturnOutcome(p, "SKIPPED - INVALID SYNTAX")
                   ELSE Goto(p, "line160") /\ UNCHANGED outcome
       ELSE /\ Goto(p, "line160")
            /\ UNCHANGED <<validated, tmpfiles, outcome, raised>>
    /\ UNCHANGED <<scanvars, mainvars, files, flags, disk, bak, text, cleaned, writes>>

\* lines 160-161
DryRun(p) ==
    /\ At(p, "line160")
    /\ IF flags.dry_run
       THEN ReturnOutcome(p, "DRY RUN")
       ELSE Goto(p, "line163") /\ UNCHANGED outcome
    /\ UNCHANGED <<scanvars, mainvars, files, flags, disk, bak, tmpfiles, text, cleaned,
                   validated, writes, raised>>

\* lines 163-164: shutil.copy copies the file's bytes; when it raises it may
\* have left no copy or a truncated one.
Backup(p) ==
    /\ At(p, "line163")
    /\ IF WantsBackup(flags)
       THEN \/ /\ bak' = [bak EXCEPT ![p] = FileOf(disk[p])]
               /\ Goto(p, "line166")
               /\ UNCHANGED <<outcome, raised>>
            \/ /\ \E left \in {bak[p]} \cup {FileOf(t) : t \in Truncations(disk[p])} :
                      bak' = [bak EXCEPT ![p] = left]
               /\ Except(p, "line164")
       ELSE /\ Goto(p, "line166")
            /\ UNCHANGED <<bak, outcome, raised>>
    /\ UNCHANGED <<scanvars, mainvars, files, flags, disk, tmpfiles, text, cleaned, validated, writes>>

\* lines 166-167: write_text opens the file for writing and writes the text;
\* when it raises the file is as it was or holds a truncated text.
WriteText(p) ==
    /\ At(p, "line166")
    /\ writes' = [writes EXCEPT ![p] = @ + 1]
    /\ \/ /\ disk' = [disk EXCEPT ![p] = Encode(cleaned[p])]
          /\ ReturnOutcome(p, "OK")
          /\ UNCHANGED raised
       \/ /\ \E left \in {disk[p]} \cup Truncations(Encode(cleaned[p])) :
                 disk' = [disk EXCEPT ![p] = left]
          /\ Except(p, "line166")
    /\ UNCHANGED <<scanvars, mainvars, files, flags, bak, tmpfiles, text, cleaned, validated>>

\* The calls a worker process is running.
Running == {p \in Range(files) : fpc[p] \notin {"idle", "queued", "returned"}}

\* line 207: ProcessPoolExecutor(max_workers=args.workers) raises ValueError
\* unless max_workers > 0; lines 208-214: executor.map submits one call per
\* file, in the order of the list.
StartPool ==
    /\ mpc = "line207"
    /\ IF workers > 0
       THEN /\ mpc' = "line216"
            /\ fpc' = [p \in Paths |-> IF p \in Range(files) THEN "queued" ELSE fpc[p]]
       ELSE /\ mpc' = "raised"
            /\ UNCHANGED fpc
    /\ UNCHANGED <<scanvars, files, flags, workers, printed, summary, disk, bak, tmpfiles,
                   text, cleaned, validated, writes, outcome, raised>>

\* The call for p is the next of the queue and a worker process is free.
CanTake(p) ==
    /\ mpc = "line216"
    /\ At(p, "queued")
    /\ Cardinality(Running) < workers
    /\ \A k \in 1 .. Len(files) : files[k] = p =>
            \A j \in 1 .. k - 1 : fpc[files[j]] # "queued"

\* A free worker process takes the next call of the queue.
TakeCall(p) ==
    /\ CanTake(p)
    /\ Goto(p, "line154")
    /\ UNCHANGED <<scanvars, mainvars, files, flags, disk, bak, tmpfiles, text, cleaned,
                   validated, writes, outcome, raised>>

\* lines 216-217: the results come in the order of the list, each when its
\* call has returned.
PrintResult ==
    /\ mpc = "line216"
    /\ Len(printed) < Len(files)
    /\ LET p == files[Len(printed) + 1]
       IN  /\ fpc[p] = "returned"
           /\ printed' = Append(printed, [tag |-> outcome[p], path |-> p])
    /\ UNCHANGED <<scanvars, files, flags, workers, mpc, summary, disk, bak, tmpfiles, fpc,
                   text, cleaned, validated, writes, outcome, raised>>

\* Faulty variant: the summary does not wait for the loop of lines 216-217 and
\* counts the results printed so far.
PrintSummaryEarly ==
    /\ mpc = "line216"
    /\ summary' = Append(summary, Len(printed))
    /\ mpc' = "exited"
    /\ UNCHANGED <<scanvars, files, flags, workers, printed, disk, bak, tmpfiles, fpc,
                   text, cleaned, validated, writes, outcome, raised>>

\* line 219, after the loop of lines 216-217 has ended
PrintSummary ==
    /\ mpc = "line216"
    /\ Len(printed) = Len(files)
    /\ summary' = Append(summary, Len(files))
    /\ mpc' = "exited"
    /\ UNCHANGED <<scanvars, files, flags, workers, printed, disk, bak, tmpfiles, fpc,
                   text, cleaned, validated, writes, outcome, raised>>

MaxWorkers == 2

\* The file lists and file contents the pipeline is run on.
FileLists == {<<"a.py">>, <<"b.js", "a.py">>, <<"c.css", "b.js">>}
FileBytes == {<<"a", "/", "*", "#", "*", "/">>, <<"#", BadByte, CR, NL>>, <<"a">>}

ScanIdle ==
    /\ content = << >> /\ suffix = "" /\ i = 0 /\ result = << >>
    /\ in_string = FALSE /\ string_char = NoChar
    /\ in_block_comment = FALSE /\ in_line_comment = FALSE
    /\ pc = "idle"

\* main has parsed its arguments and listed the files (lines 199-205).
FileInit ==
    /\ ScanIdle
    /\ files \in FileLists
    /\ flags \in [backup : BOOLEAN, validate : BOOLEAN, dry_run : BOOLEAN]
    /\ disk \in [Paths -> FileBytes \cup {<< >>}]
    /\ \A p \in Paths : p \notin Range(files) => disk[p] = << >>
    /\ \A p \in Range(files) : disk[p] # << >>
    /\ bak = [p \in Paths |-> NoFile]
    /\ tmpfiles = 0
    /\ fpc = [p \in Paths |-> "idle"]
    /\ text = [p \in Paths |-> << >>]
    /\ cleaned = [p \in Paths |-> << >>]
    /\ validated = [p \in Paths |-> "not called"]
    /\ writes = [p \in Paths |-> 0]
    /\ outcome = [p \in Paths |-> "none"]
    /\ raised = [p \in Paths |-> "none"]
    /\ workers \in -1 .. MaxWorkers
    /\ mpc = "line207"
    /\ printed = << >>
    /\ summary = << >>

FileNext ==
    \/ StartPool
    \/ PrintResult
    \/ PrintSummary
    \/ \E p \in Paths :
        \/ TakeCall(p)
        \/ ReadText(p)
        \/ CleanText(p)
        \/ Validate(p)
        \/ DryRun(p)
        \/ Backup(p)
        \/ WriteText(p)

FileSpec == FileInit /\ [][FileNext]_vars

-----------------------------------------------------------------------------
(* Vocabulary of the properties *)

AtLoopBody == pc = "scan" /\ i < Len(content)
CodeMode   == ~in_string /\ ~in_line_comment /\ ~in_block_comment
ThisChar   == content[i + 1]
Pair(k)    == PySlice(content, k, k + 2)

IsPython(sfx) == sfx = ".py"
IsCLike(sfx)  == sfx \in CLikeSuffixes
IsCss(sfx)    == sfx = ".css"
IsMarkup(sfx) == sfx \in MarkupSuffixes
HasTag(sfx)   == IsPython(sfx) \/ IsCLike(sfx) \/ IsCss(sfx) \/ IsMarkup(sfx)

HasQuote(c) == \E k \in 1 .. Len(c) : c[k] \in QuoteChars

\* Some comment-opener sequence of sfx's language tag occurs in c.
HasOpener(c, sfx) ==
    \/ IsPython(sfx) /\ \E k \in 1 .. Len(c) : c[k] = "#"
    \/ IsCLike(sfx) /\ \E k \in 0 .. Len(c) - 2 : PySlice(c, k, k + 2) \in {<<"/", "/">>, <<"/", "*">>}
    \/ IsCss(sfx) /\ \E k \in 0 .. Len(c) - 2 : PySlice(c, k, k + 2) = <<"/", "*">>
    \/ IsMarkup(sfx) /\ \E k \in 0 .. Len(c) - 4 : PySlice(c, k, k + 4) = MarkupOpen

Count(c, ch) == Cardinality({k \in 1 .. Len(c) : c[k] = ch})

\* a is b with some elements deleted
RECURSIVE IsSubseq(_, _)
IsSubseq(a, b) ==
    IF a = << >> THEN TRUE
    ELSE IF b = << >> THEN FALSE
    ELSE IF Head(a) = Head(b) THEN IsSubseq(Tail(a), Tail(b))
    ELSE IsSubseq(a, Tail(b))

\* C1: every character read in string mode, from the opening quote through the
\* closing delimiter or the end of input, is appended to the output unchanged,
\* whatever comment opener it may be part of.
StringCharsPreserved ==
    [][(AtLoopBody /\ ~in_line_comment /\ ~in_block_comment
            /\ (in_string \/ ThisChar \in QuoteChars))
        => (result' = Append(result, ThisChar) /\ i' = i + 1)]_vars

\* C1 witness: a python scan has just kept a "#" read inside a string.
StringKeptHash ==
    /\ suffix = ".py" /\ pc = "scan" /\ in_string
    /\ i >= 2 /\ content[i] = "#"
    /\ result # << >> /\ result[Len(result)] = "#"

\* C2 as stated: a second pass changes nothing, for every suffix.
IdempotentEverySuffix ==
    pc = "done" => remove_comments_safely(result, suffix) = result

\* C2 amended: a second pass changes nothing for python and c-like suffixes.
IdempotentPythonCLike ==
    (pc = "done" /\ (IsPython(suffix) \/ IsCLike(suffix)))
        => remove_comments_safely(result, suffix) = result

\* C2 witness: a c-like scan that removed a block comment between kept characters.
CLikeCommentRemoved ==
    /\ pc = "done" /\ suffix = ".js"
    /\ content = <<"*", "/", "*", "*", "/", "/">>
    /\ result = <<"*", "/">>

\* C3: a text with no quote character and no comment opener of its suffix's
\* language tag is returned unchanged.
PlainTextUnchanged ==
    (pc = "done" /\ ~HasQuote(content) /\ ~HasOpener(content, suffix))
        => result = content

\* C3 witness: a .css text holding other languages' openers came back unchanged.
CssPlainReturned ==
    /\ pc = "done" /\ suffix = ".css"
    /\ content = <<"/", "/", "#">>
    /\ result = content

\* C4: under a suffix of no language tag the text is returned unchanged, whatever
\* quotes, backslashes and comment delimiters it holds.
NoTagUnchanged ==
    (pc = "done" /\ ~HasTag(suffix)) => result = content

\* C4 witness: an untagged text with a markup comment, a "#" and another with a
\* quote and a backslash came back.
NoTagReturned ==
    /\ pc = "done" /\ suffix = ".txt"
    /\ content \in {MarkupOpen \o MarkupClose \o <<"#">>, <<DQuote, Backslash, "/">>}
    /\ result = content

\* A comment the scanner recognizes starts at the scan index (Code mode assumed).
CommentStartsHere ==
    \/ IsPython(suffix) /\ ThisChar = "#"
    \/ IsCLike(suffix) /\ Pair(i) \in {<<"/", "/">>, <<"/", "*">>}
    \/ IsCss(suffix) /\ Pair(i) = <<"/", "*">>
    \/ /\ IsMarkup(suffix)
       /\ PySlice(content, i, i + 4) = MarkupOpen
       /\ \E e \in i + 4 .. Len(content) - 3 : PySlice(content, e, e + 3) = MarkupClose

\* C5: the output is the input with comment spans deleted: a step keeps the
\* character at the scan index or drops it, the index only moves forward, a
\* Code-mode character outside any comment is kept, and so the output is a
\* subsequence of the input.
OutputIsInputMinusComments ==
    /\ [](pc = "done" => IsSubseq(result, content))
    /\ [][AtLoopBody =>
            /\ i' > i
            /\ result' = result \/ result' = Append(result, ThisChar)
            /\ (CodeMode /\ ~CommentStartsHere) =>
                    (result' = Append(result, ThisChar) /\ i' = i + 1)]_vars

\* C5 witness: a c-like scan kept code, a newline and a string around a comment.
CodeKeptAroundComment ==
    /\ pc = "done" /\ suffix = ".js"
    /\ content = <<NL, "/", "*", "*", "/", DQuote>>
    /\ result = <<NL, DQuote>>

\* C6: a line comment is dropped from its opener up to the next newline, which
\* is kept as the scanner returns to Code mode; a python output has as many
\* newlines as its input; a line comment that reaches the end keeps nothing.
LineCommentKeepsNewline ==
    /\ [](pc = "done" /\ IsPython(suffix) => Count(result, NL) = Count(content, NL))
    /\ [][(AtLoopBody /\ CodeMode /\ IsPython(suffix) /\ ThisChar = "#")
            => (in_line_comment' /\ result' = result /\ i' = i + 1)]_vars
    /\ [][(AtLoopBody /\ CodeMode /\ IsCLike(suffix) /\ Pair(i) = <<"/", "/">>)
            => (in_line_comment' /\ result' = result /\ i' = i + 2)]_vars
    /\ [][(AtLoopBody /\ in_line_comment) =>
            /\ i' = i + 1
            /\ IF ThisChar = NL
               THEN result' = Append(result, NL) /\ ~in_line_comment' /\ CodeMode'
               ELSE result' = result /\ in_line_comment']_vars
    /\ [][(pc = "scan" /\ in_line_comment /\ pc' = "done") => result' = result]_vars

\* C6 witness: a python scan dropped a comment and kept the newline ending it.
PythonCommentDropped ==
    /\ pc = "done" /\ suffix = ".py"
    /\ content = <<"a", "#", "a", NL, "a">>
    /\ result = <<"a", NL, "a">>

\* C7: a block comment opened at k by "/*" runs to the first "*/" that begins at
\* k+2 or later, and nothing of it is kept.
BlockCommentSpan ==
    /\ [](in_block_comment =>
            \E k \in 0 .. i - 2 :
                /\ Pair(k) = <<"/", "*">>
                /\ \A j \in k + 2 .. i - 1 : Pair(j) # <<"*", "/">>)
    /\ [][(AtLoopBody /\ CodeMode /\ (IsCLike(suffix) \/ IsCss(suffix))
                /\ Pair(i) = <<"/", "*">>)
            => (in_block_comment' /\ result' = result /\ i' = i + 2)]_vars
    /\ [][(AtLoopBody /\ in_block_comment) =>
            /\ result' = result
            /\ IF Pair(i) = <<"*", "/">>
               THEN i' = i + 2 /\ CodeMode'
               ELSE i' = i + 1 /\ in_block_comment']_vars

\* C7 witness: after "/*/" the comment is still open, and a later "*/" closed a
\* comment that held a newline and a second "/*".
BlockCommentPastSlash ==
    /\ suffix \in {".js", ".css"} /\ pc = "done"
    /\ content \in {<<"/", "*", "/", NL, "*", "/">>, <<"/", "*", "/", "*", "*", "/">>}
    /\ result = << >> /\ ~in_block_comment

\* The scanner's state when its index first reaches k or more.
RECURSIVE RunTo(_, _, _, _)
RunTo(c, sfx, s, k) == IF s.i < k THEN RunTo(c, sfx, ScanStep(c, sfx, s), k) ELSE s

\* A block comment is opened in Code mode at index k of c.
BlockOpenedAt(c, sfx, k) ==
    LET s == RunTo(c, sfx, ScanStart, k)
    IN  /\ s.i = k
        /\ ~s.in_string /\ ~s.in_line_comment /\ ~s.in_block_comment
        /\ PyIndex(c, k) \notin QuoteChars
        /\ (IsCLike(sfx) \/ IsCss(sfx))
        /\ PySlice(c, k, k + 2) = <<"/", "*">>

\* C8: when a block comment opened in Code mode at k is never closed, the scan
\* still returns, and its output is what had been kept before k.
UnclosedBlockDropsRest ==
    pc = "done" =>
        \A k \in 0 .. Len(content) - 2 :
            (/\ BlockOpenedAt(content, suffix, k)
             /\ \A j \in k + 2 .. Len(content) - 2 : Pair(j) # <<"*", "/">>)
            => /\ result = RunTo(content, suffix, ScanStart, k).result
               /\ i = Len(content)

\* C8 witness: a scan returned inside a block comment, having kept what came
\* before it and dropped a newline after it.
ReturnedInsideBlock ==
    /\ pc = "done" /\ in_block_comment
    /\ content = <<DQuote, DQuote, "/", "*", NL, "/">>
    /\ result = <<DQuote, DQuote>>

\* C9: in Code mode at "<!--" under a markup suffix, the scan resumes right
\* after the first "-->" that begins at i+4 or later, keeping nothing; with no
\* such "-->" the "<" is kept as code and the scan goes on at i+1.
MarkupCommentSkipped ==
    [][(AtLoopBody /\ CodeMode /\ IsMarkup(suffix)
            /\ PySlice(content, i, i + 4) = MarkupOpen) =>
        LET ends == {e \in i + 4 .. Len(content) - 3 : PySlice(content, e, e + 3) = MarkupClose}
        IN  /\ CodeMode'
            /\ IF ends # {}
               THEN /\ result' = result
                    /\ i' - 3 \in ends
                    /\ \A e \in ends : i' - 3 <= e
               ELSE /\ result' = Append(result, "<")
                    /\ i' = i + 1]_vars

\* C9 witness: a markup comment holding a quote was dropped and the scan resumed
\* in Code mode after it.
MarkupCommentDropped ==
    /\ pc = "done" /\ suffix = ".html"
    /\ content = MarkupOpen \o <<DQuote>> \o MarkupClose \o <<"-", "-">>
    /\ result = <<"-", "-">>

\* C10: the original file is written at most once, and only when the whole
\* cleaned text has been computed, validation has passed if validate is set and
\* the backup copy has been made if backup is set; a call that returns from an
\* earlier step has not written the original, and nothing writes it afterwards.
WriteComesLast ==
    /\ [](\A p \in Paths : writes[p] <= 1)
    /\ [][\A p \in Paths :
            (writes'[p] # writes[p] \/ disk'[p] # disk[p]) =>
                /\ fpc[p] = "line166" /\ writes[p] = 0
                /\ cleaned[p] = remove_comments_safely(Decode(disk[p]), SuffixOf(p))
                /\ flags.validate => validated[p] = "valid"
                /\ flags.backup => bak[p] = FileOf(disk[p])]_vars
    /\ [][\A p \in Paths :
            (fpc[p] \notin {"line166", "returned"} /\ fpc'[p] = "returned") =>
                (writes'[p] = 0 /\ disk'[p] = disk[p])]_vars
    /\ [][\A p \in Paths :
            fpc[p] = "returned" =>
                (fpc'[p] = "returned" /\ writes'[p] = writes[p] /\ disk'[p] = disk[p])]_vars

\* C10 witness: with validate and backup set, a file was validated, copied and
\* then overwritten with a cleaned text that differs from the original.
WrittenAfterValidateAndBackup ==
    \E p \in Paths :
        /\ flags.validate /\ flags.backup
        /\ outcome[p] = "OK" /\ writes[p] = 1
        /\ validated[p] = "valid"
        /\ bak[p].exists /\ bak[p].bytes # disk[p]
        /\ disk[p] = Encode(cleaned[p])

\* The call for p can take its next step: a worker is running it, or can take it.
CanStep(p) == p \in Running \/ CanTake(p)

Skipped == "SKIPPED - INVALID SYNTAX"

\* C11: when validate is set and the syntax check of the cleaned text fails, the
\* call returns the skipped outcome at once, leaving the original and the backup
\* path untouched; a skipped file was never written and has no backup copy, and
\* the skipped call holds no worker: while calls remain, one of them can take its
\* next step.
SkippedLeavesFileAlone ==
    /\ [][\A p \in Paths :
            (fpc[p] = "line157" /\ flags.validate /\ validated'[p] = "invalid") =>
                /\ fpc'[p] = "returned" /\ outcome'[p] = Skipped
                /\ disk' = disk /\ bak' = bak /\ writes' = writes]_vars
    /\ [](\A p \in Paths :
            outcome[p] = Skipped =>
                /\ fpc[p] = "returned" /\ flags.validate /\ validated[p] = "invalid"
                /\ writes[p] = 0 /\ bak[p] = NoFile
                /\ p \notin Running
                /\ (\E q \in Range(files) : fpc[q] # "returned") =>
                       \E q \in Range(files) : CanStep(q))
    /\ [][\A p \in Paths : disk'[p] # disk[p] => writes'[p] = writes[p] + 1]_vars

\* C11 witness: the first file of the list was skipped for its syntax with backup
\* set, and the second file was then cleaned and written; both were printed.
SkippedThenNextCleaned ==
    /\ files = <<"b.js", "a.py">> /\ flags.validate /\ flags.backup
    /\ outcome["b.js"] = Skipped /\ raised["b.js"] = "none"
    /\ bak["b.js"] = NoFile /\ writes["b.js"] = 0
    /\ outcome["a.py"] = "OK" /\ writes["a.py"] = 1
    /\ Len(printed) = 2

\* C12 as stated: with backup set, every call that has returned without an error,
\* dry runs included, has left a backup copy holding the text that was read.
BackupWheneverCompleted ==
    \A p \in Range(files) :
        (flags.backup /\ fpc[p] = "returned" /\ outcome[p] \in {"OK", "DRY RUN"}) =>
            (bak[p].exists /\ Decode(bak[p].bytes) = text[p])

\* C12 amended: with backup set, every call that has returned OK (so dry-run is
\* unset and validation has passed if set) has left a backup copy holding the
\* original: the copy is made only at line 164, of the bytes of the file not yet
\* written, and is never changed afterwards; a dry run and a skipped file leave
\* no backup copy.
BackupMadeBeforeWrite ==
    /\ [](\A p \in Paths :
            (flags.backup /\ outcome[p] = "OK") =>
                /\ bak[p].exists /\ Decode(bak[p].bytes) = text[p]
                /\ ~flags.dry_run
                /\ flags.validate => validated[p] = "valid")
    /\ [][\A p \in Paths :
            bak'[p] # bak[p] =>
                /\ flags.backup /\ fpc[p] = "line163" /\ writes[p] = 0
                /\ fpc'[p] = "line166" => bak'[p] = FileOf(disk[p])]_vars
    /\ [](\A p \in Paths : outcome[p] \in {"DRY RUN", Skipped} => bak[p] = NoFile)

\* C12 witness: without validation, a file was copied and then overwritten; the
\* copy holds the text that was read and differs from the file now on disk.
BackupHoldsOriginal ==
    \E p \in Paths :
        /\ flags.backup /\ ~flags.validate /\ ~flags.dry_run
        /\ outcome[p] = "OK"
        /\ bak[p].exists /\ Decode(bak[p].bytes) = text[p]
        /\ bak[p].bytes # disk[p]

\* C13: every exception raised while a file is read, scanned, validated or
\* written, a failure to run the external syntax checker included, makes the
\* call return the ERROR outcome.
ExceptionsReportedAsError ==
    \A p \in Range(files) :
        (fpc[p] = "returned" /\ raised[p] # "none") => outcome[p] = "ERROR"

\* C14: with dry-run set no file is written: the original is not written, no
\* backup copy is made, no other file is left behind, and a call that returns
\* with no exception and no failed syntax check returns the DRY RUN outcome.
DryRunWritesNoFile ==
    flags.dry_run =>
        /\ tmpfiles = 0
        /\ \A p \in Range(files) :
            /\ writes[p] = 0 /\ bak[p] = NoFile
            /\ (fpc[p] = "returned" /\ raised[p] = "none" /\ validated[p] # "invalid") =>
                   outcome[p] = "DRY RUN"

OutcomeTags == {"OK", "DRY RUN", Skipped, "ERROR"}

-----------------------------------------------------------------------------
(* The scanner's modes *)

Mode ==
    IF in_string THEN "string"
    ELSE IF in_line_comment THEN "line comment"
    ELSE IF in_block_comment THEN "block comment"
    ELSE "code"

\* content with the character at 0-based index k replaced by ch
Replaced(c, k, ch) == [c EXCEPT ![k + 1] = ch]

\* The 0-based indices of the quote characters of c from a up to, not including, b.
QuotesIn(c, a, b) == {k \in a .. b - 1 : k < Len(c) /\ c[k + 1] \in QuoteChars}

\* C15: the mode changes only from code to another mode or from another mode to
\* code; a step in string mode starts no comment, a step in a comment starts no
\* string, a skipped markup comment leaves the scan in code mode; and a quote
\* read inside a comment, or inside a skipped markup comment, could be any other
\* character: the text returned is the same.
ModeChangesThroughCode ==
    /\ [][/\ Mode' # Mode => (Mode = "code" \/ Mode' = "code")
          /\ in_string => (~in_line_comment' /\ ~in_block_comment')
          /\ (in_line_comment \/ in_block_comment) =>
                (~in_string' /\ string_char' = string_char)
          /\ InLoop("markup_comment") =>
                (Mode' = "code" /\ string_char' = string_char /\ result' = result)]_vars
    /\ [](AtLoopBody /\ (in_line_comment \/ in_block_comment) /\ ThisChar \in QuoteChars =>
            remove_comments_safely(Replaced(content, i, "a"), suffix)
                = remove_comments_safely(content, suffix))
    /\ [](InLoop("markup_comment") =>
            \A k \in QuotesIn(content, i + 4, PyFind(content, MarkupClose, i + 4)) :
                remove_comments_safely(Replaced(content, k, "a"), suffix)
                    = remove_comments_safely(content, suffix))

\* C15 witness: a python scan read a quote inside a line comment, opened no
\* string, and so dropped the comment that follows the next line's code.
QuoteInCommentOpensNothing ==
    /\ pc = "done" /\ suffix = ".py"
    /\ content = <<"#", DQuote, NL, "a", "#">>
    /\ result = <<NL, "a">>
    /\ in_line_comment /\ ~in_string

\* The character at 0-based index j >= 1 of c is the delimiter d and the character
\* before it is not a backslash.
ClosesAt(c, d, j) == c[j + 1] = d /\ c[j] # Backslash

\* C16: a string is opened only by a quote read in code mode, which becomes its
\* delimiter; each later step in string mode keeps the delimiter and leaves
\* string mode exactly when the character read is the delimiter and the
\* character before it is not a backslash, so the string ends at the first such
\* position: while in string mode there is an opening delimiter behind the index
\* with no such position after it.
StringClosesAtFirstUnescapedDelimiter ==
    /\ [][/\ (~in_string /\ in_string') => InLoop("open_string")
          /\ InLoop("open_string") =>
                (in_string' /\ string_char' = ThisChar /\ i' = i + 1)
          /\ (AtLoopBody /\ in_string) =>
                /\ string_char' = string_char /\ i' = i + 1
                /\ in_string' <=> ~ClosesAt(content, string_char, i)
                /\ ~in_string' => Mode' = "code"]_vars
    /\ [](in_string =>
            /\ i >= 1 /\ string_char \in QuoteChars
            /\ \E k \in 0 .. i - 1 :
                  /\ content[k + 1] = string_char
                  /\ \A j \in k + 1 .. i - 1 : ~ClosesAt(content, string_char, j))

\* C16 witness: after a quote, an escaped backslash and a second quote the python
\* scan was still in string mode, and kept the "#" that follows.
EscapedBackslashKeepsString ==
    /\ pc = "done" /\ suffix = ".py"
    /\ content = <<DQuote, Backslash, Backslash, DQuote, "#">>
    /\ result = content
    /\ in_string /\ string_char = DQuote

\* The comment openers, and the language tags each one belongs to.
OpenerSeqs == {<<"#">>, <<"/", "/">>, <<"/", "*">>, MarkupOpen}

InScope(seq, sfx) ==
    \/ seq = <<"#">> /\ IsPython(sfx)
    \/ seq = <<"/", "/">> /\ IsCLike(sfx)
    \/ seq = <<"/", "*">> /\ (IsCLike(sfx) \/ IsCss(sfx))
    \/ seq = MarkupOpen /\ IsMarkup(sfx)

\* The scan is in code mode at the first character of seq.
AtSeq(seq) == AtLoopBody /\ CodeMode /\ PySlice(content, i, i + Len(seq)) = seq

\* Scanning on from the current state to index k keeps exactly kept and ends in
\* code mode.
KeepsAsCode(k, kept) ==
    LET s == RunTo(content, suffix, Cur, k)
    IN  /\ s.i = k /\ s.result = result \o kept
        /\ ~s.in_string /\ ~s.in_line_comment /\ ~s.in_block_comment

\* Under .css the second "/" of "//" opens a block comment when "*" follows.
SlashesThenStar(seq) ==
    IsCss(suffix) /\ seq = <<"/", "/">> /\ NextChar(content, i + 1) = "*"

\* C17 as stated: an opener met in code mode under a suffix of another language
\* tag is emitted whole and leaves the scan in code mode.
OutOfScopeOpenerEmitted ==
    \A seq \in OpenerSeqs :
        (AtSeq(seq) /\ ~InScope(seq, suffix)) => KeepsAsCode(i + Len(seq), seq)

\* C17 amended: a comment starts only at an opener of the suffix's language
\* tag; an opener of another tag met in code mode is emitted whole and leaves the
\* scan in code mode, except "//" followed by "*" under .css, where the first "/"
\* is emitted and the second opens a block comment.
OpenersScopedToTag ==
    /\ [][/\ (in_line_comment' /\ ~in_line_comment) =>
                \/ AtSeq(<<"#">>) /\ IsPython(suffix)
                \/ AtSeq(<<"/", "/">>) /\ IsCLike(suffix)
          /\ (in_block_comment' /\ ~in_block_comment) =>
                (AtSeq(<<"/", "*">>) /\ (IsCLike(suffix) \/ IsCss(suffix)))
          /\ InLoop("markup_comment") => (AtSeq(MarkupOpen) /\ IsMarkup(suffix))]_vars
    /\ [](\A seq \in OpenerSeqs :
            (AtSeq(seq) /\ ~InScope(seq, suffix)) =>
                IF SlashesThenStar(seq)
                THEN /\ KeepsAsCode(i + 1, <<"/">>)
                     /\ RunTo(content, suffix, Cur, i + 2).in_block_comment
                     /\ RunTo(content, suffix, Cur, i + 2).i = i + 3
                     /\ RunTo(content, suffix, Cur, i + 2).result = result \o <<"/">>
                ELSE KeepsAsCode(i + Len(seq), seq))

\* C17 witness: under .css "//" was kept as code, newline included, and the "/*"
\* of the next line opened a block comment.
CssKeepsSlashesOpensBlock ==
    /\ pc = "done" /\ suffix = ".css"
    /\ content = <<"/", "/", NL, "/", "*">>
    /\ result = <<"/", "/", NL>>
    /\ in_block_comment

\* C18: at every step at most one of in_string, in_line_comment and
\* in_block_comment is true.
AtMostOneMode ==
    Cardinality({f \in {"string", "line", "block"} :
                    \/ f = "string" /\ in_string
                    \/ f = "line" /\ in_line_comment
                    \/ f = "block" /\ in_block_comment}) <= 1

\* C18 witness: a c-like scan has just read a quote inside a block comment, and
\* is in block-comment mode only.
QuoteReadInBlockComment ==
    /\ pc = "scan" /\ suffix = ".js" /\ i >= 3
    /\ content[i] \in QuoteChars
    /\ in_block_comment /\ ~in_string /\ ~in_line_comment

\* The iterations the loop still makes from state s.
RECURSIVE Iterations(_, _, _)
Iterations(c, sfx, s) ==
    IF s.i < Len(c) THEN 1 + Iterations(c, sfx, ScanStep(c, sfx, s)) ELSE 0

BranchNames == {"line_comment", "block_comment", "string", "open_string", "py_comment",
                "c_line_comment", "c_block_comment", "css_comment", "markup_comment", "emit"}

\* C19: at every loop test 0 <= i <= len(content); an iteration strictly
\* increases i and comes back to the loop test; in string mode i >= 1, so
\* content[i - 1] is the character before; the loop has a branch to run
\* whenever i < len(content), returns when it is not, and makes at most
\* len(content) - i more iterations.
ScanTerminates ==
    /\ [](0 <= i /\ i <= Len(content))
    /\ [](in_string => i >= 1)
    /\ [](pc = "scan" => Iterations(content, suffix, Cur) <= Len(content) - i)
    /\ [](AtLoopBody => Dispatch(content, suffix, Cur) \in BranchNames)
    /\ [][AtLoopBody => (i' > i /\ i' <= Len(content) /\ pc' = "scan")]_vars
    /\ [][(pc = "scan" /\ ~AtLoopBody) => pc' = "done"]_vars

\* C19 witness: a c-like scan of a block comment whose closer takes the last two
\* characters returned with i = len(content).
ReturnedAtEndAfterCloser ==
    /\ pc = "done" /\ suffix = ".js"
    /\ content = <<"/", "*", "*", "/">>
    /\ i = Len(content) /\ result = << >>

====
